---- MODULE Spec2Model ----
(***************************************************************************)
(* Model of terraform-provider-webarena: the provider's Configure, the     *)
(* webarena_indigo_v1_vm_sshkey resource (Create, Read, Update, Delete,    *)
(* ImportState) and the data source of the same name (Read), against the   *)
(* WebARENA Indigo SSH key REST service.                                   *)
(*                                                                         *)
(* Strings are sequences of one-character strings (the empty string is     *)
(* << >>), so that strconv.FormatInt and strconv.ParseInt are modelled by  *)
(* what they do to the characters.  A Terraform attribute value is null,   *)
(* unknown or a known value.                                               *)
(***************************************************************************)
EXTENDS Integers, Sequences, FiniteSets, TLC

\* ------------------------------------------------------------------ bounds

\* SSH key ids the remote service hands out: 1..MaxId.
MaxId == 1

\* ------------------------------------------------- Terraform attribute values

Null == [k |-> "null"]

Unknown == [k |-> "unknown"]

Val(v) == [k |-> "val", v |-> v]

IsNull(x) == x.k = "null"

IsUnknown(x) == x.k = "unknown"

\* types.String.ValueString: the known value, "" for null and unknown.
ValueString(x) == IF x.k = "val" THEN x.v ELSE << >>

\* types.Int64.ValueInt64: the known value, 0 for null and unknown.
ValueInt64(x) == IF x.k = "val" THEN x.v ELSE 0

\* ------------------------------------------------------------- strconv

Digits == <<"0", "1", "2", "3", "4", "5", "6", "7", "8", "9">>

DigitChars == {Digits[i] : i \in 1..10}

DigitVal(c) == (CHOOSE i \in 1..10 : Digits[i] = c) - 1

RECURSIVE NatDigits(_)
NatDigits(n) == IF n < 10 THEN <<Digits[n + 1]>>
                ELSE NatDigits(n \div 10) \o <<Digits[(n % 10) + 1]>>

\* strconv.FormatInt(n, 10)
FormatInt(n) == IF n < 0 THEN <<"-">> \o NatDigits(0 - n) ELSE NatDigits(n)

RECURSIVE DigitsValue(_)
DigitsValue(s) == IF s = << >> THEN 0
                  ELSE 10 * DigitsValue(SubSeq(s, 1, Len(s) - 1)) + DigitVal(s[Len(s)])

RECURSIVE StripZeros(_)
StripZeros(s) == IF s # << >> /\ s[1] = "0" THEN StripZeros(Tail(s)) ELSE s

\* 2^63 - 1 and 2^63 as digit strings: the int64 range is decided on the
\* digits, the values themselves are beyond the model checker's integers.
MaxInt64Digits == <<"9","2","2","3","3","7","2","0","3","6","8","5","4","7","7","5","8","0","7">>

MinInt64Digits == <<"9","2","2","3","3","7","2","0","3","6","8","5","4","7","7","5","8","0","8">>

RECURSIVE DigitsLeq(_, _)
DigitsLeq(a, b) == IF a = << >> THEN TRUE
                   ELSE IF DigitVal(a[1]) # DigitVal(b[1]) THEN DigitVal(a[1]) < DigitVal(b[1])
                   ELSE DigitsLeq(Tail(a), Tail(b))

InRange(digits, limit) ==
    LET d == StripZeros(digits)
    IN  \/ Len(d) < Len(limit)
        \/ Len(d) = Len(limit) /\ DigitsLeq(d, limit)

\* strconv.ParseInt(s, 10, 64): an optional sign, then one or more decimal
\* digits (leading zeros allowed), within the int64 range.
ParseInt(s) ==
    LET neg  == s # << >> /\ s[1] = "-"
        body == IF s # << >> /\ s[1] \in {"+", "-"} THEN Tail(s) ELSE s
    IN  IF body = << >> \/ \E i \in 1..Len(body) : body[i] \notin DigitChars
        THEN [ok |-> FALSE, err |-> "syntax", v |-> 0]
        ELSE IF ~InRange(body, IF neg THEN MinInt64Digits ELSE MaxInt64Digits)
        THEN [ok |-> FALSE, err |-> "range", v |-> 0]
        ELSE [ok |-> TRUE, err |-> "", v |-> IF neg THEN 0 - DigitsValue(body) ELSE DigitsValue(body)]

\* ------------------------------------------------------- provider Configure

ProviderAttrs == {"endpoint", "client_id", "client_secret"}

\* What a provider block can hold for one optional string attribute.
ConfigValues == {Null, Unknown, Val(<< >>), Val(<<"c">>)}

\* os.Getenv: "" when the variable is unset.
EnvValues == {<< >>, <<"e">>}

NoProviderData == << >>

ConfigureFailed(diags) ==
    [diags |-> diags, opts |-> << >>, DataSourceData |-> NoProviderData,
     ResourceData |-> NoProviderData]

\* Effective with the precedence reversed: the environment wins.
EffectiveEnvFirst(config, env, a) ==
    IF env[a] # << >> THEN env[a] ELSE ValueString(config[a])

\* The value Configure uses for attribute a.
Effective(config, env, a) ==
    IF ~IsNull(config[a]) THEN ValueString(config[a]) ELSE env[a]

UnknownDiags(config) ==
    {<<"Unknown", a>> : a \in {b \in ProviderAttrs : IsUnknown(config[b])}}

\* MissingDiags looking at both sources: an empty value is missing only when
\* the other source is empty too.
MissingDiagsEither(config, env) ==
    {<<"Missing", a>> : a \in {b \in {"client_id", "client_secret"} :
                                  ValueString(config[b]) = << >> /\ env[b] = << >>}}

MissingDiags(config, env) ==
    {<<"Missing", a>> : a \in {b \in {"client_id", "client_secret"} :
                                  Effective(config, env, b) = << >>}}

ClientOptions(config, env) ==
    <<[opt |-> "ClientID", v |-> Effective(config, env, "client_id")],
      [opt |-> "ClientSecret", v |-> Effective(config, env, "client_secret")]>>
    \o (IF Effective(config, env, "endpoint") # << >>
        THEN <<[opt |-> "Endpoint", v |-> Effective(config, env, "endpoint")]>>
        ELSE << >>)

\* WebARENAProvider.Configure as a function of the configuration, the
\* environment and whether indigo.NewClient fails.
Configure(config, env, newClientErr) ==
    IF UnknownDiags(config) # {} THEN ConfigureFailed(UnknownDiags(config))
    ELSE IF MissingDiags(config, env) # {} THEN ConfigureFailed(MissingDiags(config, env))
    ELSE IF newClientErr
    THEN [diags |-> {<<"Unable to Create WebARENA API Client", "">>},
          opts |-> ClientOptions(config, env),
          DataSourceData |-> NoProviderData, ResourceData |-> NoProviderData]
    ELSE [diags |-> {}, opts |-> ClientOptions(config, env),
          DataSourceData |-> <<ClientOptions(config, env)>>,
          ResourceData |-> <<ClientOptions(config, env)>>]

\* ------------------------------------------------- the remote SSH key service

Names == {<<"n", "1">>, <<"n", "2">>}

Keys == {<<"k", "1">>, <<"k", "2">>}

Ids == 1..MaxId

ServiceIdOfAccount == <<"s", "v", "c">>

Active == <<"A", "C", "T", "I", "V", "E">>

Deactive == <<"D", "E", "A", "C", "T", "I", "V", "E">>

\* Two points in time, as the service prints them.
T0 == <<"t", "0">>

T1 == <<"t", "1">>

\* The record the service stores for a new key.
NewRecord(id, name, key) ==
    [Id |-> id, ServiceId |-> ServiceIdOfAccount, UserId |-> 7,
     Name |-> name, Sshkey |-> key, Status |-> Active,
     CreatedAt |-> T0, UpdatedAt |-> T0]

RecordsOf(rem, id) == {r \in rem : r.Id = id}

ErrResponse(rem) == [kind |-> "err", SshKey |-> << >>, remote |-> rem]

NilResponse(rem) == [kind |-> "nil", SshKey |-> << >>, remote |-> rem]

\* indigo.Client.CreateWebArenaIndigoV1VmSSHKey: an error, a nil response,
\* or the stored record under an id not in use.
CreateOutcomes(rem, req) ==
    {ErrResponse(rem), NilResponse(rem)}
    \cup {[kind |-> "ok", SshKey |-> <<NewRecord(id, req.SshName, req.SshKey)>>,
           remote |-> rem \cup {NewRecord(id, req.SshName, req.SshKey)}] :
            id \in {i \in Ids : RecordsOf(rem, i) = {}}}

\* indigo.Client.RetrieveWebArenaIndigoV1VmSSHKey: an error, a nil response,
\* or the list of the records with that id (empty when there is none).
RetrieveOutcomes(rem, id) ==
    {ErrResponse(rem), NilResponse(rem),
     [kind |-> "ok",
      SshKey |-> IF RecordsOf(rem, id) = {} THEN << >>
                 ELSE <<CHOOSE r \in RecordsOf(rem, id) : TRUE>>,
      remote |-> rem]}

\* The record after an update request: name and key replaced, the status
\* too when the request names one.
UpdatedRecord(r, req) ==
    [r EXCEPT !.Name = req.SshName, !.Sshkey = req.SshKey,
              !.Status = IF req.SshKeyState \in {Active, Deactive}
                         THEN req.SshKeyState ELSE r.Status,
              !.UpdatedAt = T1]

\* indigo.Client.UpdateWebArenaIndigoV1VmSSHKey
UpdateOutcomes(rem, id, req) ==
    {ErrResponse(rem), NilResponse(rem)}
    \cup {[kind |-> "ok", SshKey |-> << >>,
           remote |-> (rem \ {r}) \cup {UpdatedRecord(r, req)}] : r \in RecordsOf(rem, id)}

\* indigo.Client.DestroyWebArenaIndigoV1VmSSHKey
DestroyOutcomes(rem, id) ==
    {ErrResponse(rem), NilResponse(rem)}
    \cup {[kind |-> "ok", SshKey |-> << >>, remote |-> rem \ {r}] : r \in RecordsOf(rem, id)}

Call(method, id) == [m |-> method, id |-> id]

\* ------------------------------------------------------------ the resource

\* What the configuration of a resource block holds: name and sshkey are
\* Required, the other six attributes are Computed and cannot be configured.
ResourceConfigs == [name : Names, sshkey : Keys]

\* req.Plan of Create and Update.  No attribute of the schema declares a plan
\* modifier, so the plugin framework plans every Computed attribute (id
\* included) as unknown whenever it plans a change.
PlanOf(cfg) ==
    [id |-> Unknown, service_id |-> Unknown, user_id |-> Unknown,
     name |-> Val(cfg.name), sshkey |-> Val(cfg.sshkey), status |-> Unknown,
     created_at |-> Unknown, updated_at |-> Unknown]

\* CreateState with name and sshkey taken from each other's field.
CreateStateSwapped(plan, rec) ==
    [plan EXCEPT !.id = Val(FormatInt(rec.Id)), !.service_id = Val(rec.ServiceId),
                 !.name = Val(rec.Sshkey), !.sshkey = Val(rec.Name),
                 !.user_id = Val(rec.UserId), !.status = Val(rec.Status),
                 !.created_at = Val(rec.CreatedAt), !.updated_at = Val(rec.UpdatedAt)]

\* Create, lines 140-147: the plan with the response's record copied in.
CreateState(plan, rec) ==
    [plan EXCEPT !.id = Val(FormatInt(rec.Id)), !.service_id = Val(rec.ServiceId),
                 !.name = Val(rec.Name), !.sshkey = Val(rec.Sshkey),
                 !.user_id = Val(rec.UserId), !.status = Val(rec.Status),
                 !.created_at = Val(rec.CreatedAt), !.updated_at = Val(rec.UpdatedAt)]

\* ReadState that leaves sshkey as the prior state has it.
ReadStateKeepsSshkey(st, rec) ==
    [st EXCEPT !.id = Val(FormatInt(rec.Id)), !.service_id = Val(rec.ServiceId),
               !.user_id = Val(rec.UserId), !.name = Val(rec.Name),
               !.status = Val(rec.Status),
               !.created_at = Val(rec.CreatedAt), !.updated_at = Val(rec.UpdatedAt)]

\* Read, lines 188-196.
ReadState(st, rec) ==
    [st EXCEPT !.id = Val(FormatInt(rec.Id)), !.service_id = Val(rec.ServiceId),
               !.user_id = Val(rec.UserId), !.name = Val(rec.Name),
               !.sshkey = Val(rec.Sshkey), !.status = Val(rec.Status),
               !.created_at = Val(rec.CreatedAt), !.updated_at = Val(rec.UpdatedAt)]

\* Update, lines 254-262.
UpdateState(plan, rec) ==
    [plan EXCEPT !.id = Val(FormatInt(rec.Id)), !.service_id = Val(rec.ServiceId),
                 !.user_id = Val(rec.UserId), !.name = Val(rec.Name),
                 !.sshkey = Val(rec.Sshkey), !.status = Val(rec.Status),
                 !.created_at = Val(rec.CreatedAt), !.updated_at = Val(rec.UpdatedAt)]

\* resource.ImportStatePassthroughID(path.Root("id")): a state holding the
\* import id as given, every other attribute null.
ImportedState(id) ==
    [id |-> Val(id), service_id |-> Null, user_id |-> Null, name |-> Null,
     sshkey |-> Null, status |-> Null, created_at |-> Null, updated_at |-> Null]

\* The data source's configuration: id is Required, the rest Computed.
DataSourceConfig(id) ==
    [id |-> Val(id), service_id |-> Null, user_id |-> Null, name |-> Null,
     sshkey |-> Null, status |-> Null, created_at |-> Null, updated_at |-> Null]

\* Data source Read, lines 436-444.
DataSourceState(st, rec) ==
    [st EXCEPT !.id = Val(rec.Id), !.service_id = Val(rec.ServiceId),
               !.user_id = Val(rec.UserId), !.name = Val(rec.Name),
               !.sshkey = Val(rec.Sshkey), !.status = Val(rec.Status),
               !.created_at = Val(rec.CreatedAt), !.updated_at = Val(rec.UpdatedAt)]

VARIABLES
    pConfig,    \* the provider block
    pEnv,       \* the WEBARENA_INDIGO_* environment variables
    pResp,      \* << >>, or <<the ConfigureResponse>>
    remote,     \* the SSH key records the service holds
    state,      \* << >>, or <<the resource's Terraform state>>
    op,         \* the step taken last: a callback, or a step of the environment
    result,     \* how it ended: "ok", "error" (a diagnostic) or "panic"
    calls,      \* the remote calls it made, in order
    lastResp,   \* << >>, or <<the record of its last successful response>>
    respState,  \* << >>, or <<the state it wrote to resp.State>>
    applied,    \* << >>, or <<the configuration of the last Create or Update
                \*   in which no remote call failed>>, until the record changes
    held        \* << >>, or <<a refreshed state removed from Terraform>>,
                \*   until the record changes

pvars == <<pConfig, pEnv, pResp>>

rvars == <<remote, state, op, result, calls, lastResp, respState, applied, held>>

vars == <<pConfig, pEnv, pResp, remote, state, op, result, calls, lastResp,
          respState, applied, held>>

NotConfigured == << >>

InitResource ==
    /\ remote = {}
    /\ state = << >>
    /\ op = "none"
    /\ result = "none"
    /\ calls = << >>
    /\ lastResp = << >>
    /\ respState = << >>
    /\ applied = << >>
    /\ held = << >>

InitProvider ==
    /\ pConfig \in [ProviderAttrs -> ConfigValues]
    /\ pEnv \in [ProviderAttrs -> EnvValues]
    /\ pResp = NotConfigured
    /\ InitResource

ProviderConfigure ==
    /\ pResp = NotConfigured
    /\ \E newClientErr \in BOOLEAN :
          pResp' = <<Configure(pConfig, pEnv, newClientErr)>>
    /\ UNCHANGED <<pConfig, pEnv>>
    /\ UNCHANGED rvars

\* --------------------------------------------------------------- helpers

\* The id the resource's state names, 0 when there is no state or its id
\* is no integer.
StateId == IF state = << >> THEN 0 ELSE ParseInt(ValueString(state[1].id)).v

\* gh, unless the record with that id differs between rem and rem2.
KeepWhileSame(gh, id, rem, rem2) ==
    IF RecordsOf(rem, id) = RecordsOf(rem2, id) THEN gh ELSE << >>

\* The last step: callback o ended as res after the calls cs, lr its last
\* successful response's record and rs what it wrote to resp.State.  A step
\* of the environment is no invocation: it ends as "none" with no calls.
Finish(o, res, cs, lr, rs) ==
    /\ op' = o
    /\ result' = res
    /\ calls' = cs
    /\ lastResp' = lr
    /\ respState' = rs

\* One retrieved record, or a failure the callbacks report.
RetrieveFailed(o) == o.kind # "ok" \/ Len(o.SshKey) # 1

\* ------------------------------------------------------- resource callbacks

\* IndigoV1VmSSHKeyResource.Create.  A nil response without an error is
\* dereferenced (createResp.SshKey): the provider panics.
Create ==
    /\ state = << >>
    /\ \E cfg \in ResourceConfigs :
         LET plan == PlanOf(cfg)
             req  == [SshName |-> ValueString(plan.name), SshKey |-> ValueString(plan.sshkey)]
         IN  \E o \in CreateOutcomes(remote, req) :
               /\ remote' = o.remote
               /\ held' = << >>
               /\ IF o.kind = "err"
                  THEN /\ Finish("Create", "error", <<Call("create", 0)>>, << >>, << >>)
                       /\ UNCHANGED state
                       /\ applied' = << >>
                  ELSE IF o.kind = "nil"
                  THEN /\ Finish("Create", "panic", <<Call("create", 0)>>, << >>, << >>)
                       /\ UNCHANGED state
                       /\ applied' = << >>
                  ELSE /\ Finish("Create", "ok", <<Call("create", 0)>>, o.SshKey,
                                 <<CreateState(plan, o.SshKey[1])>>)
                       /\ state' = <<CreateState(plan, o.SshKey[1])>>
                       /\ applied' = <<cfg>>
    /\ UNCHANGED pvars

\* IndigoV1VmSSHKeyResource.Read.  An error leaves the prior state.
Read ==
    /\ state # << >>
    /\ LET st == state[1]
           id == ParseInt(ValueString(st.id))
       IN  IF ~id.ok
           THEN /\ Finish("Read", "error", << >>, << >>, << >>)
                /\ UNCHANGED <<remote, state>>
           ELSE \E o \in RetrieveOutcomes(remote, id.v) :
                  /\ remote' = o.remote
                  /\ IF RetrieveFailed(o)
                     THEN /\ Finish("Read", "error", <<Call("retrieve", id.v)>>, << >>, << >>)
                          /\ UNCHANGED state
                     ELSE /\ Finish("Read", "ok", <<Call("retrieve", id.v)>>, o.SshKey,
                                    <<ReadState(st, o.SshKey[1])>>)
                          /\ state' = <<ReadState(st, o.SshKey[1])>>
    /\ UNCHANGED <<applied, held>>
    /\ UNCHANGED pvars

UpdateRequest(plan) ==
    [SshName |-> ValueString(plan.name), SshKey |-> ValueString(plan.sshkey),
     SshKeyState |-> ValueString(plan.status)]

\* IndigoV1VmSSHKeyResource.Update, invoked when the configuration differs
\* from the state.  An error leaves the prior state.
Update ==
    /\ state # << >>
    /\ \E cfg \in ResourceConfigs :
         /\ Val(cfg.name) # state[1].name \/ Val(cfg.sshkey) # state[1].sshkey
         /\ LET plan == PlanOf(cfg)
                id   == ParseInt(ValueString(plan.id))
                upd  == Call("update", id.v)
                ret  == Call("retrieve", id.v)
            IN  IF ~id.ok
                THEN /\ Finish("Update", "error", << >>, << >>, << >>)
                     /\ UNCHANGED <<remote, state>>
                     /\ applied' = <<cfg>>
                ELSE \E up \in UpdateOutcomes(remote, id.v, UpdateRequest(plan)) :
                       IF up.kind # "ok"
                       THEN /\ Finish("Update", "error", <<upd>>, << >>, << >>)
                            /\ remote' = up.remote
                            /\ UNCHANGED state
                            /\ applied' = << >>
                       ELSE \E rt \in RetrieveOutcomes(up.remote, id.v) :
                              /\ remote' = rt.remote
                              /\ IF RetrieveFailed(rt)
                                 THEN /\ Finish("Update", "error", <<upd, ret>>, << >>, << >>)
                                      /\ UNCHANGED state
                                      /\ applied' = << >>
                                 ELSE /\ Finish("Update", "ok", <<upd, ret>>, rt.SshKey,
                                                <<UpdateState(plan, rt.SshKey[1])>>)
                                      /\ state' = <<UpdateState(plan, rt.SshKey[1])>>
                                      /\ applied' = <<cfg>>
    /\ held' = << >>
    /\ UNCHANGED pvars

\* Delete that looks the key up before it destroys it.
DeleteRetrievesFirst ==
    /\ state # << >>
    /\ LET id == ParseInt(ValueString(state[1].id))
       IN  IF ~id.ok
           THEN /\ Finish("Delete", "error", << >>, << >>, << >>)
                /\ UNCHANGED <<remote, state>>
           ELSE \E o \in DestroyOutcomes(remote, id.v) :
                  /\ remote' = o.remote
                  /\ IF o.kind # "ok"
                     THEN /\ Finish("Delete", "error",
                                    <<Call("retrieve", id.v), Call("destroy", id.v)>>, << >>, << >>)
                          /\ UNCHANGED state
                     ELSE /\ Finish("Delete", "ok",
                                    <<Call("retrieve", id.v), Call("destroy", id.v)>>, << >>, << >>)
                          /\ state' = << >>
    /\ applied' = << >>
    /\ held' = << >>
    /\ UNCHANGED pvars

\* IndigoV1VmSSHKeyResource.Delete.  Without a diagnostic the framework
\* removes the state.  A nil response without an error is dereferenced
\* (destroyResp.Success): the provider panics.
Delete ==
    /\ state # << >>
    /\ LET id == ParseInt(ValueString(state[1].id))
       IN  IF ~id.ok
           THEN /\ Finish("Delete", "error", << >>, << >>, << >>)
                /\ UNCHANGED <<remote, state>>
           ELSE \E o \in DestroyOutcomes(remote, id.v) :
                  /\ remote' = o.remote
                  /\ IF o.kind = "err"
                     THEN /\ Finish("Delete", "error", <<Call("destroy", id.v)>>, << >>, << >>)
                          /\ UNCHANGED state
                     ELSE IF o.kind = "nil"
                     THEN /\ Finish("Delete", "panic", <<Call("destroy", id.v)>>, << >>, << >>)
                          /\ UNCHANGED state
                     ELSE /\ Finish("Delete", "ok", <<Call("destroy", id.v)>>, << >>, << >>)
                          /\ state' = << >>
    /\ applied' = << >>
    /\ held' = << >>
    /\ UNCHANGED pvars

\* The ids terraform import is given: the decimal ids, and strings that are
\* not what FormatInt prints.
ImportIds ==
    {FormatInt(i) : i \in 0..MaxId}
    \cup {<<"0", "1">>, <<"+", "1">>, <<"-", "1">>, <<"a">>, <<"1", "a">>,
          <<"9","9","9","9","9","9","9","9","9","9","9","9","9","9","9","9","9","9","9">>}

\* IndigoV1VmSSHKeyResource.ImportState, into an address without state.
ImportState ==
    /\ state = << >>
    /\ \E id \in ImportIds :
         /\ state' = <<ImportedState(id)>>
         /\ Finish("ImportState", "ok", << >>, << >>, <<ImportedState(id)>>)
         /\ held' = IF held # << >> /\ held[1].st.id = Val(id)
                    THEN <<[held[1] EXCEPT !.imported = TRUE]>> ELSE << >>
    /\ applied' = << >>
    /\ UNCHANGED remote
    /\ UNCHANGED pvars

\* A data source Read that destroys the key it has read.
DataSourceReadDestroys ==
    /\ \E cid \in 0..(MaxId + 1) :
         LET cfg == DataSourceConfig(cid)
             id  == ValueInt64(cfg.id)
         IN  \E o \in RetrieveOutcomes(remote, id) :
               IF RetrieveFailed(o)
               THEN /\ Finish("DataSourceRead", "error", <<Call("retrieve", id)>>, << >>, << >>)
                    /\ remote' = o.remote
               ELSE /\ Finish("DataSourceRead", "ok",
                              <<Call("retrieve", id), Call("destroy", id)>>, o.SshKey,
                              <<DataSourceState(cfg, o.SshKey[1])>>)
                    /\ remote' = o.remote \ RecordsOf(o.remote, id)
    /\ UNCHANGED <<state, applied, held>>
    /\ UNCHANGED pvars

\* IndigoV1VmSSHKeyDataSource.Read
DataSourceRead ==
    /\ \E cid \in 0..(MaxId + 1) :
         LET cfg == DataSourceConfig(cid)
             id  == ValueInt64(cfg.id)
         IN  \E o \in RetrieveOutcomes(remote, id) :
               /\ remote' = o.remote
               /\ IF RetrieveFailed(o)
                  THEN Finish("DataSourceRead", "error", <<Call("retrieve", id)>>, << >>, << >>)
                  ELSE Finish("DataSourceRead", "ok", <<Call("retrieve", id)>>, o.SshKey,
                              <<DataSourceState(cfg, o.SshKey[1])>>)
    /\ UNCHANGED <<state, applied, held>>
    /\ UNCHANGED pvars

\* ------------------------------------------------------------ environment

\* terraform state rm: Terraform forgets the resource, the record stays.
\* A state that Read has just refreshed and that still is the record is
\* held for comparison with a later import.
StateRm ==
    /\ state # << >>
    /\ state' = << >>
    /\ held' = IF /\ op = "Read" /\ result = "ok" /\ respState = state
                  /\ RecordsOf(remote, StateId) = {lastResp[1]}
               THEN <<[st |-> state[1], imported |-> FALSE]>> ELSE << >>
    /\ applied' = << >>
    /\ Finish("StateRm", "none", << >>, << >>, << >>)
    /\ UNCHANGED remote
    /\ UNCHANGED pvars

HeldId == IF held = << >> THEN 0 ELSE ParseInt(ValueString(held[1].st.id)).v

\* Another client of the service (the control panel) adds, changes or
\* removes a key.
RemoteChange ==
    /\ \E id \in Ids :
         \/ /\ RecordsOf(remote, id) = {}
            /\ \E n \in Names, k \in Keys : remote' = remote \cup {NewRecord(id, n, k)}
         \/ \E r \in RecordsOf(remote, id), n \in Names, k \in Keys :
              /\ r.Name # n \/ r.Sshkey # k
              /\ remote' = (remote \ {r})
                           \cup {UpdatedRecord(r, [SshName |-> n, SshKey |-> k, SshKeyState |-> << >>])}
         \/ \E r \in RecordsOf(remote, id) : remote' = remote \ {r}
    /\ applied' = KeepWhileSame(applied, StateId, remote, remote')
    /\ held' = KeepWhileSame(held, HeldId, remote, remote')
    /\ Finish("RemoteChange", "none", << >>, << >>, << >>)
    /\ UNCHANGED state
    /\ UNCHANGED pvars

\* ---------------------------------------------------------- specifications

\* The provider as Configure leaves it with the credentials in the
\* environment and an empty provider block.
ConfiguredFromEnv ==
    /\ pConfig = [a \in ProviderAttrs |-> Null]
    /\ pEnv = [a \in ProviderAttrs |-> IF a = "endpoint" THEN << >> ELSE <<"e">>]
    /\ pResp = <<Configure(pConfig, pEnv, FALSE)>>

Init == ConfiguredFromEnv /\ InitResource

Next ==
    \/ Create
    \/ Read
    \/ Update
    \/ Delete
    \/ ImportState
    \/ DataSourceRead
    \/ StateRm
    \/ RemoteChange

Spec == Init /\ [][Next]_vars

SpecProvider == InitProvider /\ [][ProviderConfigure]_vars

\* ------------------------------------------------------------------ claims

\* s is what strconv.FormatInt prints for n: the digits of n without a sign
\* or leading zeros ("-" first when n is negative).
IsDecimalOf(s, n) ==
    /\ s # << >>
    /\ LET body == IF s[1] = "-" THEN Tail(s) ELSE s
       IN  /\ body # << >>
           /\ \A i \in 1..Len(body) : body[i] \in DigitChars
           /\ Len(body) > 1 => body[1] # "0"
           /\ (s[1] = "-") <=> (n < 0)
           /\ DigitsValue(body) = IF n < 0 THEN 0 - n ELSE n

WritesState == {"Create", "Read", "Update", "DataSourceRead"}

Callbacks == {"Create", "Read", "Update", "Delete", "DataSourceRead"}

Methods(cs) == [i \in 1..Len(cs) |-> cs[i].m]

\* C2 as stated: every invocation of Create, Read, Update, Delete or the
\* data source Read makes exactly one remote call.
C2_ExactlyOneCall == op \in Callbacks => Len(calls) = 1

\* C2 as amended: Create and the data source Read make exactly one remote
\* call; Read and Delete make one, or none when they end with an error before
\* calling (the id in state is no integer); Update makes none when it ends
\* with an error before calling, and otherwise update followed, when update
\* answered, by retrieve: a successful Update has made two calls.
C2_CallsPerInvocation ==
    /\ op = "Create" => Methods(calls) = <<"create">>
    /\ op = "DataSourceRead" => Methods(calls) = <<"retrieve">>
    /\ op = "Read" => /\ Methods(calls) \in {<< >>, <<"retrieve">>}
                      /\ calls = << >> => result = "error"
    /\ op = "Delete" => /\ Methods(calls) \in {<< >>, <<"destroy">>}
                        /\ calls = << >> => result = "error"
    /\ op = "Update" => /\ Methods(calls) \in {<< >>, <<"update">>, <<"update", "retrieve">>}
                        /\ calls = << >> => result = "error"
                        /\ result = "ok" => Len(calls) = 2
    /\ op = "ImportState" => calls = << >>

C2_Witness ==
    /\ op = "Read"
    /\ result = "error"
    /\ calls = << >>
    /\ state # << >>
    /\ state[1].id = Val(<<"1", "a">>)

\* C3: a data source Read makes no remote call but retrieve and leaves the
\* remote records as they are.
C3_DataSourceReadOnly ==
    [][DataSourceRead =>
         /\ remote' = remote
         /\ \A i \in 1..Len(calls') : calls'[i].m = "retrieve"]_vars

C3_Witness ==
    /\ op = "DataSourceRead"
    /\ result = "ok"
    /\ remote # {}
    /\ respState[1].id = Val(1)

C5_ImportRoundTrip ==
    (held # << >> /\ held[1].imported /\ op = "Read" /\ result = "ok") =>
        state = <<held[1].st>>

C5_Witness ==
    /\ held # << >>
    /\ held[1].imported
    /\ op = "Read"
    /\ result = "ok"
    /\ state # << >>
    /\ state[1].sshkey = Val(<<"k", "2">>)

\* The value chosen for attribute a, read off the request: the configuration
\* value when it is set (not null), the environment variable otherwise.
Chosen(a) == IF pConfig[a] # Null THEN pConfig[a].v ELSE pEnv[a]

\* C6: the client options are built from the effective values, the
\* configuration value when set and the environment variable otherwise, and
\* the endpoint option is passed only when the effective endpoint is not
\* empty.
C6_EffectiveValues ==
    (pResp # << >> /\ pResp[1].opts # << >>) =>
        LET o == pResp[1].opts
        IN  /\ o[1] = [opt |-> "ClientID", v |-> Chosen("client_id")]
            /\ o[2] = [opt |-> "ClientSecret", v |-> Chosen("client_secret")]
            /\ Len(o) = IF Chosen("endpoint") # << >> THEN 3 ELSE 2
            /\ Len(o) = 3 => o[3] = [opt |-> "Endpoint", v |-> Chosen("endpoint")]
            /\ pResp[1].ResourceData \in {<< >>, <<o>>}
            /\ pResp[1].DataSourceData = pResp[1].ResourceData

C6_Witness ==
    /\ pResp # << >>
    /\ pResp[1].ResourceData # << >>
    /\ pConfig["client_id"] = Val(<<"c">>)
    /\ pEnv["client_id"] = <<"e">>
    /\ pConfig["client_secret"] = Null
    /\ pConfig["endpoint"] = Val(<< >>)
    /\ pEnv["endpoint"] = <<"e">>

Credentials == {"client_id", "client_secret"}

Supplied(a) ==
    \/ pConfig[a].k = "val" /\ pConfig[a].v # << >>
    \/ pEnv[a] # << >>

NoClient(r) ==
    /\ r.opts = << >>
    /\ r.ResourceData = << >>
    /\ r.DataSourceData = << >>

MissingReported(r) == \E d \in r.diags : d[1] = "Missing"

\* C7 as stated: Missing is reported for a credential exactly when neither
\* the configuration nor the environment supplies a non-empty value, and
\* with a Missing error there is no client and no provider data.
C7_MissingIffNeitherSupplies ==
    pResp # << >> =>
        /\ \A a \in Credentials : (<<"Missing", a>> \in pResp[1].diags) <=> ~Supplied(a)
        /\ MissingReported(pResp[1]) => NoClient(pResp[1])

\* C7 as amended: when no configuration value is unknown, Missing is
\* reported for a credential exactly when its effective value is empty (a
\* configuration value set to "" hides the environment variable); when one
\* is unknown no Missing error is reported; with a Missing error there is
\* no client and no provider data.
C7_MissingIffEffectiveEmpty ==
    pResp # << >> =>
        /\ (\A b \in ProviderAttrs : pConfig[b] # Unknown) =>
              \A a \in Credentials :
                  (<<"Missing", a>> \in pResp[1].diags) <=> (Chosen(a) = << >>)
        /\ (\E b \in ProviderAttrs : pConfig[b] = Unknown) => ~MissingReported(pResp[1])
        /\ MissingReported(pResp[1]) => NoClient(pResp[1])

C7_Witness ==
    /\ pResp # << >>
    /\ <<"Missing", "client_id">> \in pResp[1].diags
    /\ <<"Missing", "client_secret">> \notin pResp[1].diags
    /\ pConfig["client_id"] = Val(<< >>)
    /\ pEnv["client_id"] = <<"e">>
====
